---- MODULE Spec2Model ----
(***************************************************************************)
(* A model of driver/collector/mysql_collector.py: the MysqlCollector      *)
(* object, its four operations and the connection it talks to.             *)
(*                                                                         *)
(* Representation.  A version string is the sequence of its dot-separated  *)
(* components, each a sequence of decimal digits.  A Python value is a     *)
(* tagged record [t, n, s].  A Python float is held exactly, as a count of *)
(* ten-thousandths (field n), so float rounding error is not modelled.     *)
(* A dict is a function whose domain is the set of keys.  An operation is  *)
(* a sequence of steps, one per query it sends to the connection; pc is    *)
(* its position, "done" once it has returned or raised and until the       *)
(* caller takes the outcome.  The connection answers every query           *)
(* nondeterministically.  entry_global_status is a history variable: no    *)
(* action reads it; it keeps what self._global_status held when the        *)
(* operation was called, so that a property can tell the mapping of this   *)
(* call from the one an earlier call left behind.                          *)
(***************************************************************************)
EXTENDS Integers, Sequences, FiniteSets, TLC

VARIABLES
    _version_str,        \* self._version_str
    _version,            \* self._version, the float of "major.minor" as num/den
    ENGINE_REPLICA_SQL,  \* self.ENGINE_REPLICA_SQL
    _innodb_status,      \* self._innodb_status
    _global_status,      \* self._global_status
    pc,                  \* position of the operation in progress, or "idle"
    metrics,             \* collect_metrics: the local `metrics`
    sql_priv_map,        \* check_permission: the local `sql_priv_map`, in insertion order
    cp_i,                \* check_permission: the number of map items already iterated
    results,             \* check_permission: the local `results`
    success,             \* check_permission: the local `success`
    conn_log,            \* the cursor calls the connection has seen in the current operation
    ret,                 \* outcome of the last finished operation
    entry_global_status  \* history: self._global_status as the current operation found it

vars == <<_version_str, _version, ENGINE_REPLICA_SQL, _innodb_status, _global_status,
          pc, metrics, sql_priv_map, cp_i, results, success, conn_log, ret,
          entry_global_status>>

self_vars == <<_version_str, _version, ENGINE_REPLICA_SQL, _innodb_status, _global_status>>

cp_vars == <<sql_priv_map, cp_i, results, success>>

(***************************************************************************)
(* Bounds of the model.                                                    *)
(***************************************************************************)
\* Largest counter value of a global-status row in the derived-metrics model.
MaxGrid == 3
\* Largest number of queries the connection refuses within one check_permission.
MaxDenied == 2
\* Largest number of rows of a latency-histogram result set.
MaxBuckets == 2

(***************************************************************************)
(* The SQL statements.                                                     *)
(***************************************************************************)
VERSION_SQL == "SELECT VERSION();"

KNOBS_SQL == "SHOW GLOBAL VARIABLES;"

METRICS_SQL == "SHOW GLOBAL STATUS;"

METRICS_INNODB_SQL ==
    "SELECT name, count FROM information_schema.innodb_metrics "
    \o "WHERE subsystem = 'transaction';"

METRICS_LATENCY_HIST_SQL ==
    "SELECT bucket_number, bucket_timer_low / 1000000, "
    \o "bucket_timer_high / 1000000, count_bucket, "
    \o "count_bucket_and_lower, bucket_quantile FROM "
    \o "performance_schema.events_statements_histogram_global;"

ENGINE_INNODB_SQL == "SHOW ENGINE INNODB STATUS;"

ENGINE_MASTER_SQL == "SHOW MASTER STATUS;"

REPLICA_WORDING == "SHOW REPLICA STATUS;"

SLAVE_WORDING == "SHOW SLAVE STATUS;"

(***************************************************************************)
(* Python values.                                                          *)
(***************************************************************************)
PyInt(k) == [t |-> "int", n |-> k, s |-> ""]

PyStr(x) == [t |-> "str", n |-> 0, s |-> x]

\* A decimal.Decimal holding k ten-thousandths.
PyDecimal(k) == [t |-> "Decimal", n |-> k, s |-> ""]

\* A float holding k ten-thousandths.
PyFloat(k) == [t |-> "float", n |-> k, s |-> ""]

None == [t |-> "None", n |-> 0, s |-> ""]

EmptyDict == [k \in {} |-> None]

\* dict(rows) for rows of (key, value) pairs: a later pair overwrites an earlier one.
Dict(rows) ==
    [k \in {rows[i][1].s : i \in DOMAIN rows} |->
        LET last == CHOOSE i \in DOMAIN rows :
                        /\ rows[i][1].s = k
                        /\ \A j \in DOMAIN rows : rows[j][1].s = k => j <= i
        IN rows[last][2]]

(***************************************************************************)
(* Ordered dicts and JSON documents.  json.dumps is modelled by the JSON   *)
(* document it writes: an object is the sequence of its members in dict    *)
(* order, a number keeps the literal form (integer or real) its Python     *)
(* type gives it, and a Decimal has no JSON form.                          *)
(***************************************************************************)
\* The insertion-ordered dict of a sequence of (key, value) pairs: a key keeps the
\* place of its first pair and the value of its last.
OrderedDict(pairs) ==
    LET first(i) == \A j \in 1..(i - 1) : pairs[j][1] # pairs[i][1]
        lastval(k) == pairs[CHOOSE i \in DOMAIN pairs :
                              /\ pairs[i][1] = k
                              /\ \A j \in DOMAIN pairs : pairs[j][1] = k => j <= i][2]
        keep == SelectSeq([i \in DOMAIN pairs |-> <<i, pairs[i][1]>>],
                          LAMBDA e : first(e[1]))
    IN [i \in DOMAIN keep |-> <<keep[i][2], lastval(keep[i][2])>>]

\* dict(zip(meta, row)): pairs up to the shorter of the two.
OrderedDictZip(meta, row) ==
    LET len == IF Len(meta) < Len(row) THEN Len(meta) ELSE Len(row)
    IN OrderedDict([i \in 1..len |-> <<meta[i], row[i]>>])

JsonSerializable(v) == v.t \in {"int", "float", "str", "None"}

JsonValue(v) ==
    [j |-> CASE v.t = "int" -> "integer"
             [] v.t = "float" -> "real"
             [] v.t = "str" -> "string"
             [] OTHER -> "null",
     n |-> v.n, s |-> v.s]

\* json.dumps of one ordered dict.
JsonObject(od) == [i \in DOMAIN od |-> <<od[i][1], JsonValue(od[i][2])>>]

JsonObjectOk(od) == \A i \in DOMAIN od : JsonSerializable(od[i][2])

\* A str value that holds a JSON text.
JsonText(doc) == [t |-> "str", n |-> 0, s |-> "", json |-> doc]

(***************************************************************************)
(* Version strings.                                                        *)
(***************************************************************************)
RECURSIVE Pow10(_)
Pow10(k) == IF k = 0 THEN 1 ELSE 10 * Pow10(k - 1)

RECURSIVE DigitsValue(_)
DigitsValue(ds) ==
    IF ds = <<>> THEN 0
    ELSE 10 * DigitsValue(SubSeq(ds, 1, Len(ds) - 1)) + ds[Len(ds)]

\* float(".".join(version.split(".")[:2])), as the fraction num/den.
ParseVersion(version) ==
    IF Len(version) = 1
    THEN [num |-> DigitsValue(version[1]), den |-> 1]
    ELSE [num |-> DigitsValue(version[1]) * Pow10(Len(version[2]))
                  + DigitsValue(version[2]),
          den |-> Pow10(Len(version[2]))]

\* The __init__ test with >= in place of >.
ReplicaWordingFrom80(v) == v.num >= 8 * v.den

\* self._version > 8.0
ReplicaWordingAvailable(v) == v.num > 8 * v.den

\* The branch of __init__ that fixes the replica-status statement.
ReplicaSqlFor(v) == IF ReplicaWordingAvailable(v) THEN REPLICA_WORDING ELSE SLAVE_WORDING

\* self._version >= 8.0, as check_permission tests it.
CheckIncludesLatencyHist(v) == v.num >= 8 * v.den

\* The collect_metrics test with > in place of >=.
CollectsLatencyHistAbove(v) == v.num > 8 * v.den

\* float(self._version) >= 8.0, as collect_metrics tests it.
CollectsLatencyHist(v) == v.num >= 8 * v.den

\* The version strings collectors are constructed with.
Versions ==
    { << <<5>>, <<7>>, <<3>> >>,
      << <<7>>, <<9>>, <<9>> >>,
      << <<8>> >>,
      << <<8>>, <<0>>, <<0>> >>,
      << <<8>>, <<0>>, <<2, 2>> >>,
      << <<8>>, <<1>>, <<0>> >>,
      << <<1, 0>>, <<4>> >> }

(***************************************************************************)
(* The connection.                                                         *)
(***************************************************************************)
ER_ACCESS_DENIED_ERROR == 1045

ER_SPECIFIC_ACCESS_DENIED_ERROR == 1227

ER_TABLEACCESS_DENIED_ERROR == 1142

ER_UNKNOWN_ERROR == 1105

NoError == [cls |-> "none", errno |-> 0]

\* A mysql.connector.Error with the given errno.
DbError(code) == [cls |-> "mysql.connector.Error", errno |-> code]

\* An exception that is no mysql.connector.Error (the connection object is unusable).
OtherError == [cls |-> "Exception", errno |-> 0]

ErrorCodes ==
    {ER_ACCESS_DENIED_ERROR, ER_SPECIFIC_ACCESS_DENIED_ERROR,
     ER_TABLEACCESS_DENIED_ERROR, ER_UNKNOWN_ERROR}

ConnErrors == {DbError(c) : c \in ErrorCodes} \cup {OtherError}

\* What the connection does with one statement: execute() or fetchall() fails with
\* an exception, or the statement is answered with rows and a cursor description.
Failure(stage, ex) == [stage |-> stage, ex |-> ex, rows |-> <<>>, description |-> <<>>]

Answer(rows, description) ==
    [stage |-> "ok", ex |-> NoError, rows |-> rows, description |-> description]

Failures == {Failure(st, ex) : st \in {"execute", "fetchall"}, ex \in ConnErrors}

\* One entry of the connection's log.
Event(ev, sql, ex, rows) == [ev |-> ev, sql |-> sql, ex |-> ex, rows |-> rows]

\* What the connection sees of one statement: execute() is called with it; then
\* either fetchall() hands all its rows over, or one of the two calls has failed.
CursorCalls(sql, out) ==
    IF out.stage = "ok"
    THEN <<Event("execute", sql, NoError, <<>>), Event("fetched", sql, NoError, out.rows)>>
    ELSE <<Event("execute", sql, NoError, <<>>), Event("failed", sql, out.ex, <<>>)>>

NoException == [kind |-> "none", message |-> "", cause |-> NoError]

MysqlCollectorException(msg, ex) ==
    [kind |-> "MysqlCollectorException", message |-> msg, cause |-> ex]

\* An exception Python raises outside _cmd's try block.
PyException(kind) == [kind |-> kind, message |-> "", cause |-> NoError]

\* _cmd with the failure swallowed: an empty result in place of the exception.
CmdSwallowsFailure(sql, out) ==
    [raised |-> FALSE, exc |-> NoException, res |-> out.rows,
     meta |-> [i \in DOMAIN out.description |-> out.description[i][1]]]

\* MysqlCollector._cmd
_cmd(sql, out) ==
    IF out.stage # "ok"
    THEN [raised |-> TRUE,
          exc |-> MysqlCollectorException("Failed to execute sql " \o sql, out.ex),
          res |-> <<>>, meta |-> <<>>]
    ELSE [raised |-> FALSE, exc |-> NoException, res |-> out.rows,
          meta |-> [i \in DOMAIN out.description |-> out.description[i][1]]]

(***************************************************************************)
(* Outcomes of an operation, and the state between operations.             *)
(***************************************************************************)
NoResult == [kind |-> "none", op |-> "", value |-> None, exc |-> NoException]

Returned(op, value) == [kind |-> "return", op |-> op, value |-> value, exc |-> NoException]

Raised(op, exc) == [kind |-> "raise", op |-> op, value |-> None, exc |-> exc]

\* MysqlCollector.__init__
Init ==
    /\ _version_str \in Versions
    /\ _version = ParseVersion(_version_str)
    /\ _innodb_status = PyStr("")
    /\ _global_status = EmptyDict
    /\ ENGINE_REPLICA_SQL = ReplicaSqlFor(_version)
    /\ pc = "idle"
    /\ metrics = None
    /\ sql_priv_map = <<>>
    /\ cp_i = 0
    /\ results = <<>>
    /\ success = TRUE
    /\ conn_log = <<>>
    /\ ret = NoResult
    /\ entry_global_status = EmptyDict

\* MysqlCollector.get_version
get_version ==
    /\ pc = "idle"
    /\ conn_log' = <<>>
    /\ ret' = Returned("get_version", _version_str)
    /\ pc' = "done"
    /\ entry_global_status' = _global_status
    /\ UNCHANGED <<self_vars, metrics, cp_vars>>

\* The caller takes the outcome of the operation that ended; the next may begin.
Resume ==
    /\ pc = "done"
    /\ pc' = "idle"
    /\ ret' = NoResult
    /\ conn_log' = <<>>
    /\ entry_global_status' = EmptyDict
    /\ UNCHANGED <<self_vars, metrics, cp_vars>>

(***************************************************************************)
(* collect_knobs                                                           *)
(***************************************************************************)
KnobsResults ==
    { <<>>,
      << <<PyStr("bulk_insert_buffer_size"), PyInt(5000)>>,
         <<PyStr("tmpdir"), PyStr("/tmp")>> >>,
      << <<PyStr("tmpdir"), PyStr("/tmp")>>, <<PyStr("tmpdir"), PyStr("/var/tmp")>> >> }

KnobsOutcomes ==
    Failures \cup {Answer(r, << <<"Variable_name">>, <<"Value">> >>) : r \in KnobsResults}

\* MysqlCollector.collect_knobs
collect_knobs ==
    /\ pc = "idle"
    /\ \E out \in KnobsOutcomes :
         LET got == _cmd(KNOBS_SQL, out)
         IN /\ conn_log' = CursorCalls(KNOBS_SQL, out)
            /\ ret' = IF got.raised
                      THEN Raised("collect_knobs", got.exc)
                      ELSE Returned("collect_knobs",
                                    [global |-> [global |-> Dict(got.res)],
                                     local |-> None])
    /\ pc' = "done"
    /\ entry_global_status' = _global_status
    /\ UNCHANGED <<self_vars, metrics, cp_vars>>

(***************************************************************************)
(* collect_metrics and _collect_derived_metrics                            *)
(***************************************************************************)
\* str.lower on the status names the connection reports.
Lower(x) ==
    CASE x = "Innodb_buffer_pool_reads" -> "innodb_buffer_pool_reads"
      [] x = "Innodb_buffer_pool_read_requests" -> "innodb_buffer_pool_read_requests"
      [] x = "Com_select" -> "com_select"
      [] x = "Com_insert" -> "com_insert"
      [] x = "Com_update" -> "com_update"
      [] x = "COM_DELETE" -> "com_delete"
      [] x = "Com_replace" -> "com_replace"
      [] x = "Uptime" -> "uptime"
      [] OTHER -> x

\* The lower-cased rows written into the mapping the collector already holds
\* (an update of self._global_status in place of the assignment of a new dict).
LowerDictIntoRetained(rows) ==
    LET fetched == Dict([i \in DOMAIN rows |-> <<PyStr(Lower(rows[i][1].s)), rows[i][2]>>])
    IN [k \in DOMAIN _global_status \cup DOMAIN fetched |->
           IF k \in DOMAIN fetched THEN fetched[k] ELSE _global_status[k]]

\* {x[0].lower(): x[1] for x in rows}
LowerDict(rows) ==
    Dict([i \in DOMAIN rows |-> <<PyStr(Lower(rows[i][1].s)), rows[i][2]>>])

\* dict.get(key, default)
Get(d, key, default) == IF key \in DOMAIN d THEN d[key] ELSE default

\* d[key] = value
Put(d, key, value) == [x \in DOMAIN d \cup {key} |-> IF x = key THEN value ELSE d[x]]

\* The integers whose decimal numerals int() is given here.
NumeralRange == 0..100

\* int(v): an int as it is, a str by its decimal numeral, ValueError otherwise.
int(v) ==
    CASE v.t = "int" -> [ok |-> TRUE, n |-> v.n]
      [] v.t = "str" /\ (\E k \in NumeralRange : ToString(k) = v.s) ->
            [ok |-> TRUE, n |-> CHOOSE k \in NumeralRange : ToString(k) = v.s]
      [] OTHER -> [ok |-> FALSE, n |-> 0]

\* round(a / b, 4) for a >= 0 and b > 0, in ten-thousandths, ties to even.
Round4(a, b) ==
    LET q == (a * 10000) \div b
        r == (a * 10000) % b
    IN IF 2 * r < b THEN q
       ELSE IF 2 * r > b THEN q + 1
       ELSE IF q % 2 = 0 THEN q ELSE q + 1

\* The buffer pool miss ratio of _collect_derived_metrics, in ten-thousandths.
BufferMissRatio(innodb_buffer_pool_reads, innodb_buffer_pool_read_requests) ==
    IF innodb_buffer_pool_read_requests = 0
    THEN 0
    ELSE Round4(innodb_buffer_pool_reads, innodb_buffer_pool_read_requests) * 100

\* The read/write ratio with the zero replaced on the write side only.
ReadWriteRatioWriteSideOnly(read_counts, write_counts) ==
    Round4(read_counts, IF write_counts = 0 THEN 1 ELSE write_counts)

\* The read/write query ratio of _collect_derived_metrics, in ten-thousandths.
ReadWriteRatio(read_counts, write_counts) ==
    LET reads == IF read_counts = 0 THEN 1 ELSE read_counts
        writes == IF write_counts = 0 THEN 1 ELSE write_counts
    IN Round4(reads, writes)

\* self._global_status.get(key, 0)
StatusGet(gs, key) == Get(gs, key, PyInt(0))

\* MysqlCollector._collect_derived_metrics
_collect_derived_metrics(gs) ==
    LET innodb_buffer_pool_reads == int(StatusGet(gs, "innodb_buffer_pool_reads"))
        innodb_buffer_pool_read_requests ==
            int(StatusGet(gs, "innodb_buffer_pool_read_requests"))
        com_select == int(StatusGet(gs, "com_select"))
        com_insert == int(StatusGet(gs, "com_insert"))
        com_update == int(StatusGet(gs, "com_update"))
        com_delete == int(StatusGet(gs, "com_delete"))
        com_replace == int(StatusGet(gs, "com_replace"))
    IN IF \E c \in {innodb_buffer_pool_reads, innodb_buffer_pool_read_requests,
                    com_select, com_insert, com_update, com_delete, com_replace} :
             ~c.ok
       THEN [raised |-> TRUE, exc |-> PyException("ValueError"), value |-> EmptyDict]
       ELSE [raised |-> FALSE, exc |-> NoException,
             value |->
                [buffer_miss_ratio |->
                    PyFloat(BufferMissRatio(innodb_buffer_pool_reads.n,
                                            innodb_buffer_pool_read_requests.n)),
                 read_write_ratio |->
                    PyFloat(ReadWriteRatio(com_select.n,
                                           com_insert.n + com_update.n
                                           + com_delete.n + com_replace.n))]]

\* The local `metrics` as collect_metrics first builds it.
EmptyMetrics ==
    [global |-> [global |-> EmptyDict, innodb_metrics |-> EmptyDict,
                 performance_schema |-> EmptyDict, engine |-> EmptyDict,
                 derived |-> EmptyDict],
     local |-> None]

\* The exception noted and the operation left where it was.
RaiseAndStay(op, exc) ==
    /\ ret' = Raised(op, exc)
    /\ pc' = pc
    /\ metrics' = metrics

\* The operation in progress ends by raising exc.
Raise(op, exc) ==
    /\ ret' = Raised(op, exc)
    /\ pc' = "done"
    /\ metrics' = None

\* The operation in progress ends by returning value.
Return(op, value) ==
    /\ ret' = Returned(op, value)
    /\ pc' = "done"
    /\ metrics' = None

\* Global-status rows as the test data gives them.
TestGlobalStatus ==
    << <<PyStr("Innodb_buffer_pool_reads"), PyInt(25)>>,
       <<PyStr("Innodb_buffer_pool_read_requests"), PyInt(100)>>,
       <<PyStr("com_select"), PyInt(1)>>,
       <<PyStr("com_insert"), PyInt(1)>>,
       <<PyStr("com_update"), PyInt(1)>>,
       <<PyStr("com_delete"), PyInt(1)>>,
       <<PyStr("com_replace"), PyInt(1)>> >>

\* Global-status rows as a server gives them: capitalised names, numeral values.
ServerGlobalStatus ==
    << <<PyStr("Innodb_buffer_pool_reads"), PyStr("7")>>,
       <<PyStr("Innodb_buffer_pool_read_requests"), PyStr("9")>>,
       <<PyStr("Com_select"), PyStr("5")>>,
       <<PyStr("Com_insert"), PyStr("1")>>,
       <<PyStr("COM_DELETE"), PyStr("2")>>,
       <<PyStr("Uptime"), PyStr("100")>>,
       <<PyStr("com_select"), PyStr("4")>> >>

\* Global-status rows one of whose counters is no numeral.
OddGlobalStatus ==
    << <<PyStr("Innodb_buffer_pool_reads"), PyInt(1)>>,
       <<PyStr("Com_select"), PyStr("ON")>> >>

\* Global-status rows with the four counters the derived metrics read.
CounterRows(reads, requests, selects, inserts) ==
    << <<PyStr("Innodb_buffer_pool_reads"), PyInt(reads)>>,
       <<PyStr("Innodb_buffer_pool_read_requests"), PyInt(requests)>>,
       <<PyStr("Com_select"), PyInt(selects)>>,
       <<PyStr("Com_insert"), PyInt(inserts)>> >>

GlobalStatusResults == {<<>>, TestGlobalStatus, ServerGlobalStatus, OddGlobalStatus}

GridStatusResults ==
    {CounterRows(a, b, c, d) : a \in 0..MaxGrid, b \in 0..MaxGrid,
                               c \in 0..MaxGrid, d \in 0..MaxGrid}
    \cup {<<>>, TestGlobalStatus, ServerGlobalStatus, OddGlobalStatus}

StatusDescription == << <<"Variable_name">>, <<"Value">> >>

GlobalStatusOutcomes(rowsets) == Failures \cup {Answer(r, StatusDescription) : r \in rowsets}

\* collect_metrics up to the global-status query: lines 179-192.
CmGlobalStatus(rowsets) ==
    /\ pc = "idle"
    /\ \E out \in GlobalStatusOutcomes(rowsets) :
         LET got == _cmd(METRICS_SQL, out)
         IN /\ conn_log' = CursorCalls(METRICS_SQL, out)
            /\ IF got.raised
               THEN /\ Raise("collect_metrics", got.exc)
                    /\ UNCHANGED _global_status
               ELSE /\ _global_status' = LowerDict(got.res)
                    /\ metrics' = [EmptyMetrics EXCEPT !.global.global = LowerDict(got.res)]
                    /\ pc' = "cm_innodb_metrics"
                    /\ ret' = NoResult
    /\ entry_global_status' = _global_status
    /\ UNCHANGED <<_version_str, _version, ENGINE_REPLICA_SQL, _innodb_status, cp_vars>>

InnodbMetricsResults ==
    { << <<PyStr("trx_rw_commits"), PyInt(0)>> >> }

InnodbMetricsOutcomes ==
    Failures \cup {Answer(r, << <<"name">>, <<"count">> >>) : r \in InnodbMetricsResults}

\* collect_metrics, the innodb-transaction-metrics query: lines 193-195.
CmInnodbMetrics ==
    /\ pc = "cm_innodb_metrics"
    /\ \E out \in InnodbMetricsOutcomes :
         LET got == _cmd(METRICS_INNODB_SQL, out)
         IN /\ conn_log' = conn_log \o CursorCalls(METRICS_INNODB_SQL, out)
            /\ IF got.raised
               THEN Raise("collect_metrics", got.exc)
               ELSE /\ metrics' = [metrics EXCEPT !.global.innodb_metrics = Dict(got.res)]
                    /\ pc' = "cm_innodb_status"
                    /\ ret' = NoResult
    /\ UNCHANGED <<self_vars, cp_vars, entry_global_status>>

InnodbStatusResults ==
    { <<>>,
      << <<PyStr("InnoDB"), PyStr(""), PyStr("cluster_node_id=7")>> >> }

InnodbStatusOutcomes ==
    Failures
    \cup {Answer(r, << <<"Type">>, <<"Name">>, <<"Status">> >>) : r \in InnodbStatusResults}

\* collect_metrics, the innodb-engine-status query and the derived metrics:
\* lines 196-198.
CmInnodbStatus ==
    /\ pc = "cm_innodb_status"
    /\ \E out \in InnodbStatusOutcomes :
         LET got == _cmd(ENGINE_INNODB_SQL, out)
             derived == _collect_derived_metrics(_global_status)
         IN /\ conn_log' = conn_log \o CursorCalls(ENGINE_INNODB_SQL, out)
            /\ IF got.raised
               THEN /\ Raise("collect_metrics", got.exc)
                    /\ UNCHANGED _innodb_status
               ELSE IF got.res = <<>> \/ got.res[1] = <<>>
               THEN /\ Raise("collect_metrics", PyException("IndexError"))
                    /\ UNCHANGED _innodb_status
               ELSE /\ _innodb_status' = got.res[1][Len(got.res[1])]
                    /\ IF derived.raised
                       THEN Raise("collect_metrics", derived.exc)
                       ELSE /\ metrics' =
                                [metrics EXCEPT
                                   !.global.engine =
                                       Put(@, "innodb_status", got.res[1][Len(got.res[1])]),
                                   !.global.derived = derived.value]
                            /\ pc' = "cm_replica"
                            /\ ret' = NoResult
    /\ UNCHANGED <<_version_str, _version, ENGINE_REPLICA_SQL, _global_status, cp_vars,
                   entry_global_status>>

\* The engine entry collect_metrics makes of a replica-status or master-status
\* result: lines 201-206 and 209-214.
StatusEntry(got) ==
    IF Len(got.res) > 0
    THEN JsonText(JsonObject(OrderedDictZip(got.meta, got.res[1])))
    ELSE PyStr("")

StatusEntryOk(got) ==
    Len(got.res) > 0 => JsonObjectOk(OrderedDictZip(got.meta, got.res[1]))

ReplicaOutcomes ==
    Failures
    \cup { Answer(<<>>, << <<"Source_Host">>, <<"Connect_Retry">> >>),
           Answer(<< <<PyStr("localhost"), PyInt(60)>> >>,
                  << <<"Source_Host">>, <<"Connect_Retry">> >>) }

\* collect_metrics, the replica-status query: lines 200-206.
CmReplica ==
    /\ pc = "cm_replica"
    /\ \E out \in ReplicaOutcomes :
         LET got == _cmd(ENGINE_REPLICA_SQL, out)
         IN /\ conn_log' = conn_log \o CursorCalls(ENGINE_REPLICA_SQL, out)
            /\ IF got.raised
               THEN Raise("collect_metrics", got.exc)
               ELSE IF ~StatusEntryOk(got)
               THEN Raise("collect_metrics", PyException("TypeError"))
               ELSE /\ metrics' = [metrics EXCEPT !.global.engine =
                                       Put(@, "replica_status", StatusEntry(got))]
                    /\ pc' = "cm_master"
                    /\ ret' = NoResult
    /\ UNCHANGED <<self_vars, cp_vars, entry_global_status>>

MasterOutcomes ==
    Failures
    \cup { Answer(<<>>, << <<"Position">>, <<"Binlog_Do_DB">> >>),
           Answer(<< <<PyInt(1307), PyStr("test")>> >>,
                  << <<"Position">>, <<"Binlog_Do_DB">> >>) }

\* collect_metrics, the master-status query, and the return of a collector that
\* takes no latency histogram: lines 208-216 and 230.
CmMaster ==
    /\ pc = "cm_master"
    /\ \E out \in MasterOutcomes :
         LET got == _cmd(ENGINE_MASTER_SQL, out)
             done == [metrics EXCEPT !.global.engine =
                          Put(@, "master_status", StatusEntry(got))]
         IN /\ conn_log' = conn_log \o CursorCalls(ENGINE_MASTER_SQL, out)
            /\ IF got.raised
               THEN Raise("collect_metrics", got.exc)
               ELSE IF ~StatusEntryOk(got)
               THEN Raise("collect_metrics", PyException("TypeError"))
               ELSE IF CollectsLatencyHist(_version)
               THEN /\ metrics' = done
                    /\ pc' = "cm_latency"
                    /\ ret' = NoResult
               ELSE Return("collect_metrics", done)
    /\ UNCHANGED <<self_vars, cp_vars, entry_global_status>>

\* The fields of the LatencyHistogram named tuple, in order.
LatencyHistogramFields ==
    <<"bucket_number", "bucket_timer_low", "bucket_timer_high", "count_bucket",
      "count_bucket_and_lower", "bucket_quantile">>

\* float(elem) if isinstance(elem, Decimal) else elem
DecimalToFloat(elem) == IF elem.t = "Decimal" THEN PyFloat(elem.n) ELSE elem

\* The packaging of a row with its two timer bounds divided by 1,000,000 again.
LatencyElemDividing(lat_row) ==
    [i \in DOMAIN LatencyHistogramFields |->
        <<LatencyHistogramFields[i],
          IF i \in {2, 3}
          THEN [DecimalToFloat(lat_row[i]) EXCEPT !.n = @ \div 1000000]
          ELSE DecimalToFloat(lat_row[i])>>]

\* LatencyHistogram._make(lat_row_new)._asdict() for one fetched row.
LatencyElem(lat_row) ==
    [i \in DOMAIN LatencyHistogramFields |->
        <<LatencyHistogramFields[i], DecimalToFloat(lat_row[i])>>]

\* lat_hist_list for the fetched rows, in row order.
LatencyHistList(lat_hist) == [i \in DOMAIN lat_hist |-> LatencyElem(lat_hist[i])]

\* A histogram row as the test data gives it, and one as a server gives it: the
\* quotients of the statement's divisions come back as Decimal.
LatencyRows ==
    { <<PyInt(2), PyInt(1), PyInt(5), PyInt(3), PyInt(1), PyFloat(588)>>,
      <<PyInt(3), PyDecimal(50000), PyDecimal(125000), PyInt(4), PyInt(5),
        PyFloat(2941)>> }

LatencyResults == UNION {[1..len -> LatencyRows] : len \in 0..MaxBuckets}

LatencyDescription ==
    << <<"bucket_number">>, <<"bucket_timer_low / 1000000">>,
       <<"bucket_timer_high / 1000000">>, <<"count_bucket">>,
       <<"count_bucket_and_lower">>, <<"bucket_quantile">> >>

LatencyOutcomes == Failures \cup {Answer(r, LatencyDescription) : r \in LatencyResults}

\* collect_metrics, the latency-histogram query and the return: lines 216-230.
CmLatency ==
    /\ pc = "cm_latency"
    /\ \E out \in LatencyOutcomes :
         LET got == _cmd(METRICS_LATENCY_HIST_SQL, out)
             lat_hist_list == LatencyHistList(got.res)
         IN /\ conn_log' = conn_log \o CursorCalls(METRICS_LATENCY_HIST_SQL, out)
            /\ IF got.raised
               THEN Raise("collect_metrics", got.exc)
               ELSE IF \E i \in DOMAIN got.res : Len(got.res[i]) # Len(LatencyHistogramFields)
               THEN Raise("collect_metrics", PyException("TypeError"))
               ELSE IF \E i \in DOMAIN lat_hist_list : ~JsonObjectOk(lat_hist_list[i])
               THEN Raise("collect_metrics", PyException("TypeError"))
               ELSE Return("collect_metrics",
                           [metrics EXCEPT !.global.performance_schema =
                               Put(@, "events_statements_histogram_global",
                                   JsonText([i \in DOMAIN lat_hist_list |->
                                                JsonObject(lat_hist_list[i])]))])
    /\ UNCHANGED <<self_vars, cp_vars, entry_global_status>>

(***************************************************************************)
(* check_permission                                                        *)
(***************************************************************************)
\* sql_priv_map as check_permission builds it, in insertion order: lines 106-118.
SqlPrivMap(replica_sql, v) ==
    OrderedDict(
        << <<ENGINE_INNODB_SQL, "PROCESS">>,
           <<KNOBS_SQL, "">>,
           <<ENGINE_MASTER_SQL, "REPLICATION CLIENT">>,
           <<replica_sql, "REPLICATION CLIENT">>,
           <<METRICS_INNODB_SQL, "PROCESS">>,
           <<METRICS_SQL, "">>,
           <<VERSION_SQL, "">> >>
        \o IF CheckIncludesLatencyHist(v)
           THEN << <<METRICS_LATENCY_HIST_SQL,
                     "performance_schema.events_statements_histogram_global">> >>
           ELSE <<>>)

\* The example of how to grant the privilege: lines 127-134.
Example(errno, priv) ==
    IF errno \in {ER_SPECIFIC_ACCESS_DENIED_ERROR, ER_ACCESS_DENIED_ERROR}
    THEN "GRANT " \o priv \o " ON *.* TO <user>@<host>;"
    ELSE IF errno = ER_TABLEACCESS_DENIED_ERROR
    THEN "GRANT SELECT ON " \o priv \o " TO <user>@<'host'>;"
    ELSE "unknown"

\* An except clause that takes the access-denied errors only.
CaughtDeniedOnly(ex) ==
    /\ ex.cls = "mysql.connector.Error"
    /\ ex.errno \in {ER_ACCESS_DENIED_ERROR, ER_SPECIFIC_ACCESS_DENIED_ERROR,
                      ER_TABLEACCESS_DENIED_ERROR}

\* except mysql.connector.Error: line 126.
Caught(ex) == ex.cls = "mysql.connector.Error"

\* The info record appended for a statement that failed: lines 135-140.
Info(sql, example) == [query |-> sql, success |-> FALSE, example |-> example]

\* The three text lines of one failure record: lines 148-152.
TextLines(res) ==
    "-----------------------------------------------\n"
    \o "Permissions check failed for SQL: " \o res.query \o "\n"
    \o "Please grant the privilege. For example: " \o res.example \o "\n"

\* The report with the block of the first failure record only.
ReportTextFirstOnly(recs) == IF recs = <<>> THEN "" ELSE TextLines(Head(recs))

\* "".join(text_lines) over the failure records: lines 146-153.
RECURSIVE ReportText(_)
ReportText(recs) ==
    IF recs = <<>> THEN "" ELSE TextLines(Head(recs)) \o ReportText(Tail(recs))

\* check_permission up to its loop: lines 104-120.
check_permission ==
    /\ pc = "idle"
    /\ pc' = "cp_loop"
    /\ sql_priv_map' = SqlPrivMap(ENGINE_REPLICA_SQL, _version)
    /\ cp_i' = 0
    /\ results' = <<>>
    /\ success' = TRUE
    /\ conn_log' = <<>>
    /\ ret' = NoResult
    /\ entry_global_status' = _global_status
    /\ UNCHANGED <<self_vars, metrics>>

\* The answers a check takes: the rows are fetched and dropped.  The connection
\* refuses at most MaxDenied statements of one check, unless it refuses every
\* statement of the check with one and the same error.
CheckOutcomes(log, iterated, denied) ==
    {Answer(<<>>, <<>>)}
    \cup {f \in Failures :
            f.ex \in {DbError(c) : c \in ErrorCodes} =>
                \/ denied < MaxDenied
                \/ /\ denied = iterated
                   /\ \A i \in DOMAIN log : log[i].ev = "failed" => log[i].ex = f.ex}

\* One iteration of check_permission's loop: lines 121-141.
CpQuery ==
    /\ pc = "cp_loop"
    /\ cp_i < Len(sql_priv_map)
    /\ \E out \in CheckOutcomes(conn_log, cp_i, Len(results)) :
         LET sql == sql_priv_map[cp_i + 1][1]
             priv == sql_priv_map[cp_i + 1][2]
         IN /\ conn_log' = conn_log \o CursorCalls(sql, out)
            /\ IF out.stage = "ok"
               THEN /\ cp_i' = cp_i + 1
                    /\ UNCHANGED <<pc, ret, sql_priv_map, results, success>>
               ELSE IF Caught(out.ex)
               THEN /\ cp_i' = cp_i + 1
                    /\ results' = Append(results, Info(sql, Example(out.ex.errno, priv)))
                    /\ success' = FALSE
                    /\ UNCHANGED <<pc, ret, sql_priv_map>>
               ELSE /\ ret' = Raised("check_permission", PyException(out.ex.cls))
                    /\ pc' = "done"
                    /\ sql_priv_map' = <<>>
                    /\ cp_i' = 0
                    /\ results' = <<>>
                    /\ success' = TRUE
    /\ UNCHANGED <<self_vars, metrics, entry_global_status>>

\* check_permission after its loop: lines 146-154.
CpReport ==
    /\ pc = "cp_loop"
    /\ cp_i = Len(sql_priv_map)
    /\ ret' = Returned("check_permission", <<success, results, ReportText(results)>>)
    /\ pc' = "done"
    /\ sql_priv_map' = <<>>
    /\ cp_i' = 0
    /\ results' = <<>>
    /\ success' = TRUE
    /\ UNCHANGED <<self_vars, metrics, conn_log, entry_global_status>>

Next ==
    \/ get_version
    \/ check_permission
    \/ CpQuery
    \/ CpReport
    \/ collect_knobs
    \/ CmGlobalStatus(GlobalStatusResults)
    \/ CmInnodbMetrics
    \/ CmInnodbStatus
    \/ CmReplica
    \/ CmMaster
    \/ CmLatency
    \/ Resume

Spec == Init /\ [][Next]_vars

\* One collect_metrics call on a new collector, over the grid of counter values.
NextDerived ==
    \/ CmGlobalStatus(GridStatusResults)
    \/ CmInnodbMetrics
    \/ CmInnodbStatus
    \/ CmReplica
    \/ CmMaster
    \/ CmLatency

SpecDerived == Init /\ [][NextDerived]_vars

(***************************************************************************)
(* Properties.  They are stated over the outcome of an operation (ret),    *)
(* the connection's log of it (conn_log) and the version string the        *)
(* collector was constructed with.                                         *)
(***************************************************************************)
ExecutedSql ==
    LET ex == SelectSeq(conn_log, LAMBDA e : e.ev = "execute")
    IN [i \in DOMAIN ex |-> ex[i].sql]

FailedEvents == SelectSeq(conn_log, LAMBDA e : e.ev = "failed")

TimesExecuted(sql) == Cardinality({i \in DOMAIN ExecutedSql : ExecutedSql[i] = sql})

\* The rows the connection handed over for sql (no rows if it handed none over).
FetchedRows(sql) ==
    LET got == SelectSeq(conn_log, LAMBDA e : e.ev = "fetched" /\ e.sql = sql)
    IN IF got = <<>> THEN <<>> ELSE got[1].rows

WasFetched(sql) == \E i \in DOMAIN conn_log : conn_log[i].ev = "fetched" /\ conn_log[i].sql = sql

Ended(op) == pc = "done" /\ ret.op = op

Collecting == pc \in {"cm_innodb_metrics", "cm_innodb_status", "cm_replica", "cm_master", "cm_latency"}

\* The version string's first component, and whether its first two components
\* read as a number are at least, or above, 8.0.
VersionMajor == DigitsValue(_version_str[1])

VersionMinorDigits == IF Len(_version_str) >= 2 THEN _version_str[2] ELSE <<>>

VersionAtLeast80 == VersionMajor >= 8

VersionAbove80 ==
    \/ VersionMajor > 8
    \/ VersionMajor = 8 /\ \E i \in DOMAIN VersionMinorDigits : VersionMinorDigits[i] # 0

\* C1: when a query of collect_knobs or collect_metrics fails, at whatever step,
\* the operation raises MysqlCollectorException with a message that holds the text
\* of the failed statement and with the connection's exception as its cause, and
\* the caller gets no snapshot; the operation sends nothing after the failure.
C1_QueryFailureRaisesCollectorError ==
    /\ Collecting => FailedEvents = <<>>
    /\ (Ended("collect_knobs") \/ Ended("collect_metrics")) =>
          \A i \in DOMAIN conn_log :
              conn_log[i].ev = "failed" =>
                  /\ ret.kind = "raise"
                  /\ ret.exc.kind = "MysqlCollectorException"
                  /\ ret.exc.message = "Failed to execute sql " \o conn_log[i].sql
                  /\ ret.exc.cause = conn_log[i].ex
                  /\ ret.value = None

\* C1 witness: collect_metrics fails at its last query, after five that succeeded.
C1_Witness ==
    /\ Ended("collect_metrics")
    /\ ret.kind = "raise"
    /\ Len(conn_log) = 12
    /\ conn_log[12].ev = "failed"
    /\ conn_log[12].sql = METRICS_LATENCY_HIST_SQL

RECURSIVE ExpectedReport(_, _)
ExpectedReport(failed, recs) ==
    IF failed = <<>> THEN ""
    ELSE "-----------------------------------------------\n"
         \o "Permissions check failed for SQL: " \o Head(failed).sql \o "\n"
         \o "Please grant the privilege. For example: " \o Head(recs).example \o "\n"
         \o ExpectedReport(Tail(failed), Tail(recs))

\* C2: check_permission returns success = true exactly when no checked query
\* failed; its failure list holds one record (query, success = false, example) per
\* failed query and none for another, in the order the queries were checked; the
\* report holds one block per record in that order; with no failure the result is
\* (true, [], "").
C2_PermissionResultMatchesOutcomes ==
    (Ended("check_permission") /\ ret.kind = "return") =>
        /\ ret.value[1] = (FailedEvents = <<>>)
        /\ Len(ret.value[2]) = Len(FailedEvents)
        /\ \A i \in DOMAIN ret.value[2] :
              /\ ret.value[2][i].query = FailedEvents[i].sql
              /\ ret.value[2][i].success = FALSE
              /\ DOMAIN ret.value[2][i] = {"query", "success", "example"}
        /\ ret.value[3] = ExpectedReport(FailedEvents, ret.value[2])
        /\ FailedEvents = <<>> => ret.value = <<TRUE, <<>>, "">>

\* C2 witness: a check returns with two failure records, for two different queries.
C2_Witness ==
    /\ Ended("check_permission")
    /\ ret.kind = "return"
    /\ Len(ret.value[2]) = 2
    /\ ret.value[2][1].query = KNOBS_SQL
    /\ ret.value[2][2].query = VERSION_SQL

\* The statements check_permission is to check for this collector.
CheckedStatements ==
    {VERSION_SQL, METRICS_SQL, KNOBS_SQL, ENGINE_INNODB_SQL, METRICS_INNODB_SQL,
     ENGINE_MASTER_SQL, ENGINE_REPLICA_SQL}
    \cup (IF VersionAtLeast80 THEN {METRICS_LATENCY_HIST_SQL} ELSE {})

\* C3: a database error on a checked query does not make check_permission raise:
\* when every failure of the check was a database error (of any code), the call
\* returns, every statement of the check was sent exactly once, each failure is in
\* the result, and success is false if there was a failure.
C3_DatabaseErrorsAreRecorded ==
    (Ended("check_permission")
     /\ \A i \in DOMAIN FailedEvents : FailedEvents[i].ex.cls = "mysql.connector.Error") =>
        /\ ret.kind = "return"
        /\ \A sql \in CheckedStatements : TimesExecuted(sql) = 1
        /\ Len(ExecutedSql) = Cardinality(CheckedStatements)
        /\ \A i \in DOMAIN FailedEvents :
              \E k \in DOMAIN ret.value[2] : ret.value[2][k].query = FailedEvents[i].sql
        /\ FailedEvents # <<>> => ret.value[1] = FALSE

\* C3 witness: the first checked query fails with an unrecognized error code and
\* the check still sends all eight statements and returns.
C3_Witness ==
    /\ Ended("check_permission")
    /\ ret.kind = "return"
    /\ Len(FailedEvents) = 1
    /\ FailedEvents[1].sql = ENGINE_INNODB_SQL
    /\ FailedEvents[1].ex = DbError(ER_UNKNOWN_ERROR)
    /\ Len(ExecutedSql) = 8

\* C4: the latency-histogram query is sent only by a collector whose version is at
\* least 8.0, and by such a collector in every check_permission and in every
\* collect_metrics that returns; performance_schema of a collect_metrics result is
\* empty below 8.0 and holds exactly events_statements_histogram_global from 8.0.
C4_LatencyHistogramFromVersion80 ==
    /\ TimesExecuted(METRICS_LATENCY_HIST_SQL) > 0 => VersionAtLeast80
    /\ (Ended("collect_metrics") /\ ret.kind = "return") =>
          /\ TimesExecuted(METRICS_LATENCY_HIST_SQL) = (IF VersionAtLeast80 THEN 1 ELSE 0)
          /\ DOMAIN ret.value.global.performance_schema =
                (IF VersionAtLeast80 THEN {"events_statements_histogram_global"} ELSE {})
    /\ (Ended("check_permission") /\ ret.kind = "return") =>
          TimesExecuted(METRICS_LATENCY_HIST_SQL) = (IF VersionAtLeast80 THEN 1 ELSE 0)

\* C4 witness: a collector of version 8.0.0 returns metrics with the histogram key.
C4_Witness ==
    /\ Ended("collect_metrics")
    /\ ret.kind = "return"
    /\ _version_str = << <<8>>, <<0>>, <<0>> >>
    /\ "events_statements_histogram_global" \in DOMAIN ret.value.global.performance_schema
    /\ WasFetched(METRICS_LATENCY_HIST_SQL)

\* The privilege a statement needs, as check_permission is specified.
RequiredPrivilege(sql) ==
    CASE sql \in {ENGINE_INNODB_SQL, METRICS_INNODB_SQL} -> "PROCESS"
      [] sql \in {ENGINE_MASTER_SQL, REPLICA_WORDING, SLAVE_WORDING} -> "REPLICATION CLIENT"
      [] sql = METRICS_LATENCY_HIST_SQL -> "SELECT"
      [] OTHER -> ""

\* The tables the collector's statements read.
TableNames ==
    {"performance_schema.events_statements_histogram_global",
     "information_schema.innodb_metrics"}

\* C5: the example of a failure record follows the class of the error code: an
\* access-denied or specific-access-denied code gives GRANT <privilege> ON *.* TO
\* <user>@<host>; with the privilege the query needs, a table-access-denied code
\* gives GRANT SELECT ON <table> TO <user>@<'host'>; with a table name, and any
\* other code gives "unknown".
C5_ExampleFollowsErrorClass ==
    (Ended("check_permission") /\ ret.kind = "return"
     /\ Len(ret.value[2]) = Len(FailedEvents)) =>
        \A i \in DOMAIN FailedEvents :
            LET errno == FailedEvents[i].ex.errno
                example == ret.value[2][i].example
            IN CASE errno \in {ER_ACCESS_DENIED_ERROR, ER_SPECIFIC_ACCESS_DENIED_ERROR} ->
                      example = "GRANT " \o RequiredPrivilege(FailedEvents[i].sql)
                                \o " ON *.* TO <user>@<host>;"
                 [] errno = ER_TABLEACCESS_DENIED_ERROR ->
                      \E tbl \in TableNames :
                          example = "GRANT SELECT ON " \o tbl \o " TO <user>@<'host'>;"
                 [] OTHER -> example = "unknown"

\* C6: collect_knobs and collect_metrics raise nothing but MysqlCollectorException,
\* whatever result sets the connection hands over.
C6_OnlyCollectorErrorSurfaces ==
    ((Ended("collect_knobs") \/ Ended("collect_metrics")) /\ ret.kind = "raise") =>
        ret.exc.kind = "MysqlCollectorException"

\* The counter a global-status mapping holds under key, 0 when it holds none.
CounterOf(gs, key) == IF key \in DOMAIN gs THEN int(gs[key]).n ELSE 0

\* k ten-thousandths is a nearest ten-thousandth to a / b.
NearestTenThousandth(k, a, b) ==
    /\ 2 * (k * b - a * 10000) <= b
    /\ 2 * (a * 10000 - k * b) <= b

\* C7: a collect_metrics result holds a derived block of exactly buffer_miss_ratio
\* and read_write_ratio, computed from the lower-cased global-status mapping of the
\* call with a missing counter taken as 0: buffer_miss_ratio is 0.0 when
\* innodb_buffer_pool_read_requests is 0 and round(reads / requests, 4) * 100
\* otherwise; read_write_ratio is round(S / W, 4) for S = com_select and W =
\* com_insert + com_update + com_delete + com_replace, each replaced by 1 when 0.
C7_DerivedMetrics ==
    (Ended("collect_metrics") /\ ret.kind = "return") =>
        LET rows == FetchedRows(METRICS_SQL)
            gs == ret.value.global.global
            derived == ret.value.global.derived
            reads == CounterOf(gs, "innodb_buffer_pool_reads")
            requests == CounterOf(gs, "innodb_buffer_pool_read_requests")
            S == CounterOf(gs, "com_select")
            W == CounterOf(gs, "com_insert") + CounterOf(gs, "com_update")
                 + CounterOf(gs, "com_delete") + CounterOf(gs, "com_replace")
        IN /\ DOMAIN gs = {Lower(rows[i][1].s) : i \in DOMAIN rows}
           /\ \A i \in DOMAIN rows :
                 (\A j \in DOMAIN rows : j > i => Lower(rows[j][1].s) # Lower(rows[i][1].s))
                    => gs[Lower(rows[i][1].s)] = rows[i][2]
           /\ DOMAIN derived = {"buffer_miss_ratio", "read_write_ratio"}
           /\ derived["buffer_miss_ratio"].t = "float"
           /\ derived["read_write_ratio"].t = "float"
           /\ requests = 0 => derived["buffer_miss_ratio"].n = 0
           /\ requests # 0 =>
                 /\ derived["buffer_miss_ratio"].n % 100 = 0
                 /\ NearestTenThousandth(derived["buffer_miss_ratio"].n \div 100,
                                         reads, requests)
           /\ NearestTenThousandth(derived["read_write_ratio"].n,
                                   IF S = 0 THEN 1 ELSE S, IF W = 0 THEN 1 ELSE W)

\* C7 witness: 2 reads of 3 requests and no select against 3 inserts give a miss
\* ratio of 66.67 and a read/write ratio of 0.3333.
C7_Witness ==
    /\ Ended("collect_metrics")
    /\ ret.kind = "return"
    /\ FetchedRows(METRICS_SQL) = CounterRows(2, 3, 0, 3)
    /\ ret.value.global.derived["buffer_miss_ratio"] = PyFloat(666700)
    /\ ret.value.global.derived["read_write_ratio"] = PyFloat(3333)

\* The JSON array under events_statements_histogram_global of a result.
HistogramBuckets ==
    ret.value.global.performance_schema["events_statements_histogram_global"].json

\* C8 as claimed: from 8.0, each bucket's bucket_timer_low and bucket_timer_high are
\* the timer bounds of the corresponding fetched row divided by 1,000,000.
C8_TimersDividedByCollector ==
    (Ended("collect_metrics") /\ ret.kind = "return" /\ VersionAtLeast80) =>
        LET rows == FetchedRows(METRICS_LATENCY_HIST_SQL)
        IN /\ Len(HistogramBuckets) = Len(rows)
           /\ \A i \in DOMAIN rows : \A f \in {2, 3} :
                 HistogramBuckets[i][f][2].n * 1000000 = rows[i][f].n

\* C8 as amended: from 8.0, each bucket holds the six values of the corresponding
\* fetched row under the six LatencyHistogram names, the timer bounds as fetched
\* (the statement divides them, the collector does not), buckets in row order, a
\* Decimal written as a real number and every other value in its own form.
C8_BucketsHoldFetchedValues ==
    (Ended("collect_metrics") /\ ret.kind = "return" /\ VersionAtLeast80) =>
        LET rows == FetchedRows(METRICS_LATENCY_HIST_SQL)
        IN /\ Len(HistogramBuckets) = Len(rows)
           /\ \A i \in DOMAIN rows :
                 /\ Len(HistogramBuckets[i]) = 6
                 /\ \A f \in 1..6 :
                       /\ HistogramBuckets[i][f][1] = LatencyHistogramFields[f]
                       /\ HistogramBuckets[i][f][2].n = rows[i][f].n
                       /\ HistogramBuckets[i][f][2].j =
                             (IF rows[i][f].t = "int" THEN "integer" ELSE "real")

\* C8 witness: two rows are fetched, the first with Decimal timer bounds, and the
\* result holds them in that order.
C8_Witness ==
    /\ Ended("collect_metrics")
    /\ ret.kind = "return"
    /\ VersionAtLeast80
    /\ Len(FetchedRows(METRICS_LATENCY_HIST_SQL)) = 2
    /\ FetchedRows(METRICS_LATENCY_HIST_SQL)[1][2] = PyDecimal(50000)
    /\ FetchedRows(METRICS_LATENCY_HIST_SQL)[2][2] = PyInt(1)
    /\ HistogramBuckets[1][2] = <<"bucket_timer_low", [j |-> "real", n |-> 50000, s |-> ""]>>
    /\ HistogramBuckets[2][3] = <<"bucket_timer_high", [j |-> "integer", n |-> 5, s |-> ""]>>

\* The statements of a collect_metrics call, in order.
CollectOrder ==
    <<METRICS_SQL, METRICS_INNODB_SQL, ENGINE_INNODB_SQL,
      IF VersionAbove80 THEN REPLICA_WORDING ELSE SLAVE_WORDING, ENGINE_MASTER_SQL>>
    \o (IF VersionAtLeast80 THEN <<METRICS_LATENCY_HIST_SQL>> ELSE <<>>)

\* The number of statements sent before collect_metrics is at pc.
SentBefore(at) ==
    CASE at = "cm_innodb_metrics" -> 1
      [] at = "cm_innodb_status" -> 2
      [] at = "cm_replica" -> 3
      [] at = "cm_master" -> 4
      [] at = "cm_latency" -> 5

\* C9: collect_metrics sends its statements one at a time, each fetched in full
\* before the next is sent, in the order global status, innodb transaction
\* metrics, innodb engine status (then the derived metrics, with no statement),
\* replica status, master status and, from 8.0, the latency histogram; none is
\* sent twice, and none is sent after one that failed.
C9_StatementsInFixedOrder ==
    (Collecting \/ Ended("collect_metrics")) =>
        /\ Len(ExecutedSql) <= Len(CollectOrder)
        /\ \A i \in DOMAIN ExecutedSql : ExecutedSql[i] = CollectOrder[i]
        /\ \A sql \in {CollectOrder[i] : i \in DOMAIN CollectOrder} : TimesExecuted(sql) <= 1
        /\ Len(conn_log) = 2 * Len(ExecutedSql)
        /\ \A i \in DOMAIN ExecutedSql :
              /\ conn_log[2 * i - 1].ev = "execute"
              /\ conn_log[2 * i].ev \in {"fetched", "failed"}
              /\ conn_log[2 * i].sql = conn_log[2 * i - 1].sql
              /\ conn_log[2 * i].ev = "failed" => (i = Len(ExecutedSql) /\ pc = "done")
        /\ Collecting =>
              /\ Len(ExecutedSql) = SentBefore(pc)
              /\ (DOMAIN metrics.global.derived # {}) = (SentBefore(pc) >= 3)
        /\ (pc = "done" /\ ret.kind = "return") => Len(ExecutedSql) = Len(CollectOrder)

\* C9 witness: a collect_metrics of a collector from 8.0 returns after six statements.
C9_Witness ==
    /\ Ended("collect_metrics")
    /\ ret.kind = "return"
    /\ Len(ExecutedSql) = 6
    /\ ExecutedSql[6] = METRICS_LATENCY_HIST_SQL

\* C10: the replica-status statement is fixed by the first two components of the
\* version string: SHOW REPLICA STATUS; when they read above 8.0 and SHOW SLAVE
\* STATUS; otherwise; it never changes, and it is the replica-status statement
\* that collect_metrics and check_permission send.
C10_ReplicaStatementFixedByVersion ==
    /\ [](/\ ENGINE_REPLICA_SQL = (IF VersionAbove80 THEN REPLICA_WORDING ELSE SLAVE_WORDING)
          /\ \A i \in DOMAIN ExecutedSql :
                ExecutedSql[i] \in {REPLICA_WORDING, SLAVE_WORDING}
                   => ExecutedSql[i] = ENGINE_REPLICA_SQL
          /\ ((Ended("collect_metrics") \/ Ended("check_permission")) /\ ret.kind = "return")
                => TimesExecuted(ENGINE_REPLICA_SQL) = 1)
    /\ [][ENGINE_REPLICA_SQL' = ENGINE_REPLICA_SQL /\ _version_str' = _version_str]_vars

\* C10 witness: a collector of version 8.0.22 has sent SHOW SLAVE STATUS; in a
\* collect_metrics that returned.
C10_Witness ==
    /\ Ended("collect_metrics")
    /\ ret.kind = "return"
    /\ _version_str = << <<8>>, <<0>>, <<2, 2>> >>
    /\ ENGINE_REPLICA_SQL = SLAVE_WORDING
    /\ TimesExecuted(SLAVE_WORDING) = 1

\* The version number and the replica-status statement that follow from the version
\* string the collector was constructed with.
ConstructedVersion == ParseVersion(_version_str)

ConstructedReplicaSql == ReplicaSqlFor(ConstructedVersion)

\* The mapping of the global-status rows the connection handed over in this call:
\* lower-cased names, the last row of a name giving its value.
FetchedStatus ==
    LET rows == FetchedRows(METRICS_SQL)
        name(i) == Lower(rows[i][1].s)
    IN [k \in {name(i) : i \in DOMAIN rows} |->
           rows[CHOOSE i \in DOMAIN rows :
                   /\ name(i) = k
                   /\ \A j \in DOMAIN rows : name(j) = k => j <= i][2]]

\* entry is the engine entry of the rows handed over for sql in this call: the
\* empty string for no row, else a JSON object of the first row's values in order.
EntryOfFetched(entry, sql) ==
    LET rows == FetchedRows(sql)
    IN IF rows = <<>>
       THEN entry = PyStr("")
       ELSE /\ "json" \in DOMAIN entry
            /\ Len(entry.json) = Len(rows[1])
            /\ \A i \in DOMAIN rows[1] : entry.json[i][2] = JsonValue(rows[1][i])

\* value is the snapshot that the version string and the rows handed over in this
\* call give.
MetricsOfFetched(value) ==
    /\ DOMAIN value = {"global", "local"}
    /\ value.local = None
    /\ DOMAIN value.global =
          {"global", "innodb_metrics", "performance_schema", "engine", "derived"}
    /\ value.global.global = FetchedStatus
    /\ value.global.innodb_metrics = Dict(FetchedRows(METRICS_INNODB_SQL))
    /\ value.global.derived = _collect_derived_metrics(FetchedStatus).value
    /\ DOMAIN value.global.engine = {"innodb_status", "replica_status", "master_status"}
    /\ LET row == FetchedRows(ENGINE_INNODB_SQL)[1]
       IN value.global.engine["innodb_status"] = row[Len(row)]
    /\ EntryOfFetched(value.global.engine["replica_status"], ConstructedReplicaSql)
    /\ EntryOfFetched(value.global.engine["master_status"], ENGINE_MASTER_SQL)
    /\ IF CollectsLatencyHist(ConstructedVersion)
       THEN LET rows == FetchedRows(METRICS_LATENCY_HIST_SQL)
                buckets == value.global.performance_schema[
                               "events_statements_histogram_global"].json
            IN /\ DOMAIN value.global.performance_schema =
                     {"events_statements_histogram_global"}
               /\ Len(buckets) = Len(rows)
               /\ \A i \in DOMAIN rows : \A f \in DOMAIN rows[i] :
                     buckets[i][f] =
                        <<LatencyHistogramFields[f], JsonValue(DecimalToFloat(rows[i][f]))>>
       ELSE value.global.performance_schema = EmptyDict

\* The privilege the map of a collector of this version string holds for sql.
PrivilegeOf(sql) ==
    LET m == SqlPrivMap(ConstructedReplicaSql, ConstructedVersion)
    IN m[CHOOSE i \in DOMAIN m : m[i][1] = sql][2]

\* The check_permission result that the version string and the failures of this
\* call give.
CheckOfFailed ==
    LET recs == [i \in DOMAIN FailedEvents |->
                    Info(FailedEvents[i].sql,
                         Example(FailedEvents[i].ex.errno, PrivilegeOf(FailedEvents[i].sql)))]
    IN <<recs = <<>>, recs, ReportText(recs)>>

\* C11: the collector is stateless across calls: whatever calls came before, a call
\* that returns gives the result fixed by the version string of the construction
\* and by what the connection handed over during that call; in particular the
\* derived metrics of a collect_metrics result are those of the global-status
\* mapping fetched in that call, never of one an earlier call left in the
\* collector.
C11_ResultFromThisCallOnly ==
    (pc = "done" /\ ret.kind = "return") =>
        CASE ret.op = "get_version" -> ret.value = _version_str /\ conn_log = <<>>
          [] ret.op = "collect_knobs" ->
                ret.value = [global |-> [global |-> Dict(FetchedRows(KNOBS_SQL))],
                             local |-> None]
          [] ret.op = "check_permission" -> ret.value = CheckOfFailed
          [] ret.op = "collect_metrics" -> MetricsOfFetched(ret.value)

\* C11 witness: a collect_metrics returns in a collector that held the mapping of
\* an earlier call (25 reads of 100 requests) when it was called; the rows of this
\* call (7 reads of 9 requests, 4 selects against 3 writes) give a miss ratio of
\* 77.78 and a read/write ratio of 1.3333.
C11_Witness ==
    /\ Ended("collect_metrics")
    /\ ret.kind = "return"
    /\ "innodb_buffer_pool_reads" \in DOMAIN entry_global_status
    /\ entry_global_status["innodb_buffer_pool_reads"] = PyInt(25)
    /\ entry_global_status["innodb_buffer_pool_read_requests"] = PyInt(100)
    /\ FetchedRows(METRICS_SQL) = ServerGlobalStatus
    /\ ret.value.global.derived["buffer_miss_ratio"] = PyFloat(777800)
    /\ ret.value.global.derived["read_write_ratio"] = PyFloat(13333)

====
